---- MODULE Spec2Model ----
(***************************************************************************)
(* Habitat2_Quickstart.py: the nav-pick task, its sensor and its three     *)
(* measures, the measurement configuration cfg_txt, and the three episode  *)
(* loops of the script.                                                     *)
(*                                                                         *)
(* Numbers: positions and distances are fixed-point, in hundredths of a    *)
(* metre, on a grid of 1.25 m (125 hundredths); a position is a vector of  *)
(* one component, so the L2 norm of a difference is its absolute value.    *)
(* Python's None is the empty tuple <<>>, a value v is the 1-tuple <<v>>.  *)
(* Python indices are 0-based and kept 0-based in the state.               *)
(***************************************************************************)
EXTENDS Integers, Sequences, FiniteSets, TLC

VARIABLES cfg, phase, measures, sim, task, obs, err, last,
          pc, env_open, writer_open, reset_called, episode_over, done,
          count_steps, horizon, elapsed

hvars == <<cfg, phase, measures, sim, task, obs, err, last>>
svars == <<pc, env_open, writer_open, reset_called, episode_over, done,
           count_steps, horizon, elapsed>>
vars == <<cfg, phase, measures, sim, task, obs, err, last,
          pc, env_open, writer_open, reset_called, episode_over, done,
          count_steps, horizon, elapsed>>

\* ---------------------------------------------------------------- bounds
MaxPos == 2
NObj == 2
MaxSteps == 5

\* SCALING_FACTOR: 0.1, in hundredths
SCALING_FACTOR == 10

None == <<>>
Some(v) == <<v>>

Pos == {125 * k : k \in 0..MaxPos}

\* ------------------------------------------------- configuration (cfg_txt)
\* The TASK sections of cfg_txt that carry a TYPE and are named by
\* MEASUREMENTS, in document order; NAV_PICK_REWARD is keyed twice.
TutorialSections ==
  << [key |-> "ROBOT_FORCE", TYPE |-> "RobotForce"],
     [key |-> "FORCE_TERMINATE", TYPE |-> "ForceTerminate"],
     [key |-> "ROBOT_COLLS", TYPE |-> "RobotCollisions"],
     [key |-> "DISTANCE_TO_TARGET_OBJECT", TYPE |-> "DistanceToTargetObject"],
     [key |-> "NAV_PICK_REWARD", TYPE |-> "NavPickReward"],
     [key |-> "NAV_PICK_REWARD", TYPE |-> "NavPickSuccess"] >>

TutorialMeasurementsOnce ==
  << "ROBOT_FORCE", "FORCE_TERMINATE", "ROBOT_COLLS",
     "DISTANCE_TO_TARGET_OBJECT", "NAV_PICK_REWARD" >>

TutorialMeasurements ==
  << "ROBOT_FORCE", "FORCE_TERMINATE", "ROBOT_COLLS",
     "DISTANCE_TO_TARGET_OBJECT", "NAV_PICK_REWARD", "NAV_PICK_REWARD" >>

cfg_txt == [sections |-> TutorialSections, MEASUREMENTS |-> TutorialMeasurements]

\* Configurations of the same three measure classes under distinct keys, with
\* the MEASUREMENTS lists a user of the classes can declare.
DistinctSections ==
  << [key |-> "DISTANCE_TO_TARGET_OBJECT", TYPE |-> "DistanceToTargetObject"],
     [key |-> "NAV_PICK_REWARD", TYPE |-> "NavPickReward"],
     [key |-> "NAV_PICK_SUCCESS", TYPE |-> "NavPickSuccess"] >>

MeasurementLists ==
  { << "DISTANCE_TO_TARGET_OBJECT" >>,
    << "NAV_PICK_REWARD" >>,
    << "NAV_PICK_SUCCESS" >>,
    << "DISTANCE_TO_TARGET_OBJECT", "NAV_PICK_REWARD" >>,
    << "NAV_PICK_REWARD", "DISTANCE_TO_TARGET_OBJECT" >>,
    << "DISTANCE_TO_TARGET_OBJECT", "NAV_PICK_SUCCESS" >>,
    << "DISTANCE_TO_TARGET_OBJECT", "DISTANCE_TO_TARGET_OBJECT" >>,
    << "DISTANCE_TO_TARGET_OBJECT", "NAV_PICK_REWARD", "NAV_PICK_SUCCESS" >> }

Configs ==
  {cfg_txt} \cup
  {[sections |-> DistinctSections, MEASUREMENTS |-> m] : m \in MeasurementLists}

\* cls_uuid of each registered measure class
cls_uuid(cls) ==
  CASE cls = "DistanceToTargetObject" -> "distance_to_object"
    [] cls = "NavPickReward" -> "navpick_reward"
    [] cls = "NavPickSuccess" -> "navpick_success"
    [] cls = "RobotForce" -> "robot_force"
    [] cls = "ForceTerminate" -> "force_terminate"
    [] cls = "RobotCollisions" -> "robot_collisions"

\* Loading the document into a key/value mapping: a key given twice keeps
\* its last value.
SectionKeys(secs) == {secs[i].key : i \in 1..Len(secs)}
LoadSections(secs) ==
  [k \in SectionKeys(secs) |->
     LET last_i == CHOOSE i \in 1..Len(secs) :
                     /\ secs[i].key = k
                     /\ \A j \in 1..Len(secs) : secs[j].key = k => j <= i
     IN secs[last_i].TYPE]

Uuids(ms) == {ms[i].uuid : i \in 1..Len(ms)}
IndexOf(ms, uuid) ==
  IF uuid \in Uuids(ms)
  THEN CHOOSE i \in 1..Len(ms) :
         ms[i].uuid = uuid /\ \A j \in 1..(i - 1) : ms[j].uuid # uuid
  ELSE 0

\* Measurement Set construction: one measurement per MEASUREMENTS entry, in
\* declaration order; a second measurement with a uuid already in the set is
\* refused.
RECURSIVE RegisterAll(_, _, _)
RegisterAll(types, names, ms) ==
  IF names = <<>> THEN [err |-> "none", measures |-> ms]
  ELSE IF Head(names) \notin DOMAIN types
       THEN [err |-> "ConfigurationError", measures |-> <<>>]
       ELSE LET cls == types[Head(names)]
                m == [cls |-> cls, uuid |-> cls_uuid(cls), metric |-> None]
            IN IF m.uuid \in Uuids(ms)
               THEN [err |-> "DuplicateUuid", measures |-> <<>>]
               ELSE RegisterAll(types, Tail(names), Append(ms, m))

BuildMeasurements(c) == RegisterAll(LoadSections(c.sections), c.MEASUREMENTS, <<>>)

\* ------------------------------------------------------------- simulator
\* sim = [ee_pos, scene_pos, idxs, snap_idx]: the end-effector position, the
\* position of every scene object, the scene index of every target (what
\* get_targets() returns first), and the id of the grasped object or None.
scene_obj_ids == [i \in 1..NObj |-> NObj + i]
get_n_targets(s) == Len(s.idxs)
get_targets(s) == s.idxs
get_scene_pos(s) == s.scene_pos
get_target_objs_start(s) == [t \in 1..Len(s.idxs) |-> s.scene_pos[s.idxs[t] + 1]]

\* Episodes of the dataset: object i of the scene stands at grid point
\* (i - 1) mod (MaxPos + 1); the targets are n consecutive scene objects
\* starting at scene index r.
Layouts ==
  {[i \in 1..NObj |-> 125 * ((i - 1) % (MaxPos + 1))]}
TargetLists ==
  {[t \in 1..n |-> (t - 1 + r) % NObj] : n \in 0..NObj, r \in 0..(NObj - 1)}
SnapValues == {None} \cup {Some(scene_obj_ids[i]) : i \in 1..NObj}

Abs(x) == IF x < 0 THEN -x ELSE x
\* np.linalg.norm(v, ord=2, axis=-1) of a one-component vector
norm(v) == Abs(v)

\* ------------------------------------------------------- call results
Ok(ms, calls) == [err |-> "none", measures |-> ms, calls |-> calls]
Raise(e, ms, calls) == [err |-> e, measures |-> ms, calls |-> calls]

\* The keyword arguments the task hands to reset_metric and update_metric.
CallKwargs == {"task", "episode", "observations"}

\* Python's call f(<explicit>, **kwargs) from a function whose signature
\* captured <captured> out of its own keywords kw: the keywords f receives.
Forwarded(captured, explicit, kw) == explicit \cup (kw \ captured)

\* Measure.get_metric: the stored value, nothing recomputed.
get_metric(ms, i) == ms[i].metric

\* Measurements.check_measure_dependencies(uuid, deps): every dependency is
\* in the set and declared before the measure.
check_measure_dependencies(ms, uuid, deps) ==
  \A d \in deps : IndexOf(ms, d) # 0 /\ IndexOf(ms, d) < IndexOf(ms, uuid)

\* ------------------------------------------------------ TargetStartSensor
\* get_observation: the target's start position in the end-effector frame
\* (T_inv.transform_point is a translation here).
TargetStartSensor_get_observation(s, tk) ==
  IF tk.target_object_index = None THEN [err |-> "AttributeError", value |-> None]
  ELSE LET t == tk.target_object_index[1] IN
       IF t >= Len(get_target_objs_start(s))
       THEN [err |-> "IndexError", value |-> None]
       ELSE [err |-> "none",
             value |-> Some(get_target_objs_start(s)[t + 1] - s.ee_pos)]

\* ------------------------------------------------- DistanceToTargetObject
DistanceToTargetObject_update_metric(ms, self, s, tk, kw) ==
  IF ~({"task", "episode"} \subseteq kw) THEN Raise("TypeError", ms, <<>>)
  ELSE IF tk.target_object_index = None THEN Raise("AttributeError", ms, <<>>)
  ELSE LET t == tk.target_object_index[1]
           idxs == get_targets(s)
       IN IF t >= Len(idxs) THEN Raise("IndexError", ms, <<>>)
          ELSE Ok([ms EXCEPT ![self].metric =
                     Some(norm(get_scene_pos(s)[idxs[t + 1] + 1] - s.ee_pos))],
                  <<>>)

DistanceToTargetObject_reset_metric(ms, self, s, tk, kw) ==
  IF ~({"episode"} \subseteq kw) THEN Raise("TypeError", ms, <<>>)
  ELSE LET r == DistanceToTargetObject_update_metric(
                  ms, self, s, tk, Forwarded({"episode"}, {"episode"}, kw))
       IN [r EXCEPT !.calls = <<"update_metric">>]

\* ---------------------------------------------------------- NavPickReward
\* The prerequisite negated in place as well.
NavPickReward_update_metric_InPlace(ms, self, s, tk, kw) ==
  IF ~({"task", "episode"} \subseteq kw) THEN Raise("TypeError", ms, <<>>)
  ELSE LET d == IndexOf(ms, "distance_to_object") IN
       IF d = 0 THEN Raise("KeyError", ms, <<>>)
       ELSE IF get_metric(ms, d) = None THEN Raise("TypeError", ms, <<>>)
       ELSE Ok([ms EXCEPT ![self].metric = Some(-(get_metric(ms, d)[1])),
                          ![d].metric = Some(-(get_metric(ms, d)[1]))], <<>>)

\* The sign dropped.
NavPickReward_update_metric_Positive(ms, self, s, tk, kw) ==
  IF ~({"task", "episode"} \subseteq kw) THEN Raise("TypeError", ms, <<>>)
  ELSE LET d == IndexOf(ms, "distance_to_object") IN
       IF d = 0 THEN Raise("KeyError", ms, <<>>)
       ELSE IF get_metric(ms, d) = None THEN Raise("TypeError", ms, <<>>)
       ELSE Ok([ms EXCEPT ![self].metric = Some(get_metric(ms, d)[1])], <<>>)

NavPickReward_update_metric(ms, self, s, tk, kw) ==
  IF ~({"task", "episode"} \subseteq kw) THEN Raise("TypeError", ms, <<>>)
  ELSE LET d == IndexOf(ms, "distance_to_object") IN
       IF d = 0 THEN Raise("KeyError", ms, <<>>)
       ELSE IF get_metric(ms, d) = None THEN Raise("TypeError", ms, <<>>)
       ELSE Ok([ms EXCEPT ![self].metric = Some(-(get_metric(ms, d)[1]))], <<>>)

\* The dependency check left out.
NavPickReward_reset_metric_NoCheck(ms, self, s, tk, kw) ==
  IF ~({"task", "episode"} \subseteq kw) THEN Raise("TypeError", ms, <<>>)
  ELSE LET r == NavPickReward_update_metric(
                  ms, self, s, tk, Forwarded({"task", "episode"}, {"episode"}, kw))
       IN [r EXCEPT !.calls = <<"update_metric">>]

NavPickReward_reset_metric(ms, self, s, tk, kw) ==
  IF ~({"task", "episode"} \subseteq kw) THEN Raise("TypeError", ms, <<>>)
  ELSE IF ~check_measure_dependencies(ms, ms[self].uuid, {"distance_to_object"})
       THEN Raise("DependencyError", ms, <<"check_measure_dependencies">>)
       ELSE LET r == NavPickReward_update_metric(
                       ms, self, s, tk,
                       Forwarded({"task", "episode"}, {"episode"}, kw))
            IN [r EXCEPT !.calls = <<"check_measure_dependencies", "update_metric">>]

\* --------------------------------------------------------- NavPickSuccess
NavPickSuccess_update_metric(ms, self, s, tk, kw) ==
  IF ~({"episode", "task", "observations"} \subseteq kw)
  THEN Raise("TypeError", ms, <<>>)
  ELSE IF tk.target_object_index = None THEN Raise("AttributeError", ms, <<>>)
  ELSE LET t == tk.target_object_index[1] IN
       IF t >= Len(scene_obj_ids) THEN Raise("IndexError", ms, <<>>)
       ELSE LET abs_targ_obj_idx == scene_obj_ids[t + 1]
            IN Ok([ms EXCEPT ![self].metric =
                     Some(Some(abs_targ_obj_idx) = s.snap_idx)], <<>>)

NavPickSuccess_reset_metric(ms, self, s, tk, kw) ==
  IF ~({"episode", "task", "observations"} \subseteq kw)
  THEN Raise("TypeError", ms, <<>>)
  ELSE LET r == NavPickSuccess_update_metric(
                  ms, self, s, tk,
                  Forwarded({"episode", "task", "observations"},
                            {"episode", "task", "observations"}, kw))
       IN [r EXCEPT !.calls = <<"update_metric">>]

\* The measures of the framework that cfg_txt lists (RobotForce,
\* ForceTerminate, RobotCollisions): their value is not modelled.
Opaque_update_metric(ms, self) == Ok([ms EXCEPT ![self].metric = Some(0)], <<>>)

\* ------------------------------------------------------------- dispatch
update_metric(ms, self, s, tk, kw) ==
  CASE ms[self].cls = "DistanceToTargetObject" ->
         DistanceToTargetObject_update_metric(ms, self, s, tk, kw)
    [] ms[self].cls = "NavPickReward" ->
         NavPickReward_update_metric(ms, self, s, tk, kw)
    [] ms[self].cls = "NavPickSuccess" ->
         NavPickSuccess_update_metric(ms, self, s, tk, kw)
    [] OTHER -> Opaque_update_metric(ms, self)

reset_metric(ms, self, s, tk, kw) ==
  CASE ms[self].cls = "DistanceToTargetObject" ->
         DistanceToTargetObject_reset_metric(ms, self, s, tk, kw)
    [] ms[self].cls = "NavPickReward" ->
         NavPickReward_reset_metric(ms, self, s, tk, kw)
    [] ms[self].cls = "NavPickSuccess" ->
         NavPickSuccess_reset_metric(ms, self, s, tk, kw)
    [] OTHER -> Opaque_update_metric(ms, self)

\* Measurements.reset_measures / update_measures: every measure in
\* declaration order; the first error ends the loop and is propagated.
\* at = the index of the measure that raised, 0 when none did.
RECURSIVE reset_measures(_, _, _, _, _)
reset_measures(ms, i, s, tk, kw) ==
  IF i > Len(ms) THEN [err |-> "none", measures |-> ms, at |-> 0, calls |-> <<>>]
  ELSE LET r == reset_metric(ms, i, s, tk, kw) IN
       IF r.err # "none"
       THEN [err |-> r.err, measures |-> r.measures, at |-> i, calls |-> r.calls]
       ELSE reset_measures(r.measures, i + 1, s, tk, kw)

RECURSIVE update_measures(_, _, _, _, _)
update_measures(ms, i, s, tk, kw) ==
  IF i > Len(ms) THEN [err |-> "none", measures |-> ms, at |-> 0, calls |-> <<>>]
  ELSE LET r == update_metric(ms, i, s, tk, kw) IN
       IF r.err # "none"
       THEN [err |-> r.err, measures |-> r.measures, at |-> i, calls |-> r.calls]
       ELSE update_measures(r.measures, i + 1, s, tk, kw)

\* ------------------------------------------------------------------ task
\* np.random.randint(low, high) on the random draw u: a value of
\* low..high-1; the call raises ValueError when low >= high.
randint_ok(low, high) == low < high
randint(low, high, u) == low + (u % (high - low))

\* RearrangeTask.reset(episode): the simulator is reset (nothing is held) and
\* the sensors are read for the first observation.
RearrangeTask_reset(s, tk, old_obs) ==
  LET s1 == [s EXCEPT !.snap_idx = None]
      o == TargetStartSensor_get_observation(s1, tk)
  IN [err |-> o.err, sim |-> s1, task |-> tk,
      obs |-> IF o.err = "none" THEN o.value ELSE old_obs]

\* The upper end taken as inclusive.
NavPickTaskV1_reset_Inclusive(s, tk, u, start_pos, old_obs) ==
  LET tk1 == [tk EXCEPT !.target_object_index =
                Some(randint(0, get_n_targets(s) + 1, u))]
      s1 == [s EXCEPT !.ee_pos = start_pos]
  IN RearrangeTask_reset(s1, tk1, old_obs)

\* NavPickTaskV1.reset(episode); u is the random draw.
NavPickTaskV1_reset(s, tk, u, start_pos, old_obs) ==
  IF ~randint_ok(0, get_n_targets(s))
  THEN [err |-> "ValueError", sim |-> s, task |-> tk, obs |-> old_obs]
  ELSE LET tk1 == [tk EXCEPT !.target_object_index =
                     Some(randint(0, get_n_targets(s), u))]
           s1 == [s EXCEPT !.ee_pos = start_pos]
       IN RearrangeTask_reset(s1, tk1, old_obs)

\* ------------------------------------------------------------ the state
Built == phase \in {"built", "running", "aborted"}
Op(op, m, at, calls, stage) ==
  [op |-> op, m |-> m, at |-> at, calls |-> calls, stage |-> stage]

ScriptIdle ==
  /\ pc = [blk |-> 0, at |-> "idle"]
  /\ env_open = {}
  /\ writer_open = {}
  /\ reset_called = FALSE
  /\ episode_over = FALSE
  /\ done = FALSE
  /\ count_steps = 0
  /\ horizon = 1
  /\ elapsed = 0

Init ==
  /\ cfg \in Configs
  /\ phase = "unbuilt"
  /\ measures = <<>>
  /\ sim = [ee_pos |-> 0, scene_pos |-> CHOOSE lay \in Layouts : TRUE,
            idxs |-> <<>>, snap_idx |-> None]
  /\ task = [target_object_index |-> None]
  /\ obs = None
  /\ err = "none"
  /\ last = Op("none", 0, 0, <<>>, "none")
  /\ ScriptIdle

\* habitat.Env(config=...): the task and its Measurement Set are built.
Build ==
  /\ phase = "unbuilt"
  /\ \E b \in {BuildMeasurements(cfg)} :
       /\ measures' = b.measures
       /\ err' = b.err
       /\ phase' = IF b.err = "none" THEN "built" ELSE "build_failed"
  /\ last' = Op("build", 0, 0, <<>>, "none")
  /\ UNCHANGED <<cfg, sim, task, obs>>
  /\ UNCHANGED svars

\* env.reset(): the next episode is loaded into the simulator, the task is
\* reset, then every measure is reset in declaration order.
EnvReset ==
  /\ Built
  /\ \E lay \in Layouts, tg \in TargetLists, start_pos \in Pos :
       LET s0 == [sim EXCEPT !.scene_pos = lay, !.idxs = tg]
       IN \E u \in 0..get_n_targets(s0) :
            \E tr \in {NavPickTaskV1_reset(s0, task, u, start_pos, obs)} :
            \E mr \in {IF tr.err = "none"
                        THEN reset_measures(measures, 1, tr.sim, tr.task, CallKwargs)
                        ELSE [err |-> tr.err, measures |-> measures,
                              at |-> 0, calls |-> <<>>]} :
               /\ sim' = tr.sim
               /\ task' = tr.task
               /\ obs' = tr.obs
               /\ IF tr.err # "none"
                  THEN /\ measures' = measures
                       /\ err' = tr.err
                       /\ phase' = "aborted"
                       /\ last' = Op("reset", 0, 0, <<>>, "task")
                  ELSE /\ measures' = mr.measures
                       /\ err' = mr.err
                       /\ phase' = IF mr.err = "none" THEN "running" ELSE "aborted"
                       /\ last' = Op("reset", 0, mr.at, mr.calls, "measures")
  /\ UNCHANGED cfg
  /\ UNCHANGED svars

\* env.step(action): the simulator advances, the sensors are read, then
\* every measure is updated in declaration order.
EnvStep ==
  /\ phase = "running"
  /\ \E ee \in Pos, snap \in SnapValues :
       \E s1 \in {[sim EXCEPT !.ee_pos = ee, !.snap_idx = snap]} :
       \E o \in {TargetStartSensor_get_observation(s1, task)} :
       \E mr \in {update_measures(measures, 1, s1, task, CallKwargs)} :
          /\ sim' = s1
          /\ IF o.err # "none"
             THEN /\ obs' = obs
                  /\ measures' = measures
                  /\ err' = o.err
                  /\ phase' = "aborted"
                  /\ last' = Op("step", 0, 0, <<>>, "task")
             ELSE /\ obs' = o.value
                  /\ measures' = mr.measures
                  /\ err' = mr.err
                  /\ phase' = IF mr.err = "none" THEN "running" ELSE "aborted"
                  /\ last' = Op("step", 0, mr.at, mr.calls, "measures")
  /\ UNCHANGED <<cfg, task>>
  /\ UNCHANGED svars

\* measure.reset_metric(episode=, task=, observations=) on one measure
CallResetMetric ==
  /\ Built
  /\ \E i \in 1..Len(measures) :
       \E r \in {reset_metric(measures, i, sim, task, CallKwargs)} :
         /\ measures' = r.measures
         /\ err' = r.err
         /\ last' = Op("reset_metric", i, IF r.err = "none" THEN 0 ELSE i,
                       r.calls, "measures")
  /\ UNCHANGED <<cfg, phase, sim, task, obs>>
  /\ UNCHANGED svars

\* measure.update_metric(episode=, task=, observations=) on one measure
CallUpdateMetric ==
  /\ Built
  /\ \E i \in 1..Len(measures) :
       \E r \in {update_metric(measures, i, sim, task, CallKwargs)} :
         /\ measures' = r.measures
         /\ err' = r.err
         /\ last' = Op("update_metric", i, IF r.err = "none" THEN 0 ELSE i,
                       r.calls, "measures")
  /\ UNCHANGED <<cfg, phase, sim, task, obs>>
  /\ UNCHANGED svars

\* task.measurements.update_measures(episode=, task=, observations=)
CallUpdateMeasures ==
  /\ Built
  /\ \E mr \in {update_measures(measures, 1, sim, task, CallKwargs)} :
       /\ measures' = mr.measures
       /\ err' = mr.err
       /\ last' = Op("update_measures", 0, mr.at, mr.calls, "measures")
  /\ UNCHANGED <<cfg, phase, sim, task, obs>>
  /\ UNCHANGED svars

Next ==
  \/ Build
  \/ EnvReset
  \/ EnvStep
  \/ CallResetMetric
  \/ CallUpdateMetric
  \/ CallUpdateMeasures

Spec == Init /\ [][Next]_vars

\* ================================================================ claims
Cls(i) == measures[i].cls
IdxD == IndexOf(measures, "distance_to_object")
IdxR == IndexOf(measures, "navpick_reward")
HasIndex == task.target_object_index # None
Toi == task.target_object_index[1]

\* reset_metric of measure i was the last call the last operation made
LastReset(i) ==
  \/ last.op = "reset_metric" /\ last.m = i
  \/ last.op = "reset" /\ last.stage = "measures" /\ last.at = i

\* update_metric of measure i ran to its end in the last operation
Updated(i) ==
  \/ last.op = "update_metric" /\ last.m = i /\ err = "none"
  \/ /\ last.op \in {"step", "update_measures"}
     /\ last.stage = "measures"
     /\ (last.at = 0 \/ i < last.at)

\* C1: whenever NavPickReward.reset_metric is called on a Measurement Set
\* without 'distance_to_object', the call ends in the dependency error, the
\* dependency check is the only call it made (update_metric was not entered),
\* and the reward metric holds no value.
C1_MissingPrerequisiteRaises ==
  \A i \in 1..Len(measures) :
    (LastReset(i) /\ Cls(i) = "NavPickReward" /\ IdxD = 0)
      => /\ err = "DependencyError"
         /\ last.calls = <<"check_measure_dependencies">>
         /\ measures[i].metric = None

C1_Witness ==
  /\ last.op = "reset" /\ last.stage = "measures"
  /\ last.at # 0 /\ last.at = IdxR
  /\ IdxD = 0
  /\ err = "DependencyError"

\* C2: for each of the three measures, in a state where its prerequisites
\* exist, reset_metric(task, episode, observations) ends without error and
\* leaves the metric an immediate update_metric on the same state stores.
PrerequisitesExist(i) ==
  CASE Cls(i) = "DistanceToTargetObject" -> HasIndex /\ Toi < Len(sim.idxs)
    [] Cls(i) = "NavPickReward" ->
         IdxD # 0 /\ IdxD < i /\ measures[IdxD].metric # None
    [] Cls(i) = "NavPickSuccess" -> HasIndex /\ Toi < NObj
    [] OTHER -> FALSE

C2_ResetEqualsUpdate ==
  \A i \in 1..Len(measures) :
    (last.op = "reset_metric" /\ last.m = i /\ PrerequisitesExist(i))
      => /\ err = "none"
         /\ LET u == update_metric(measures, i, sim, task, CallKwargs)
            IN u.err = "none" /\ u.measures[i].metric = measures[i].metric

\* C3: the reward NavPickReward.update_metric stores is minus SCALING_FACTOR
\* times the distance_to_object metric (hundredths: 100 * reward =
\* -(SCALING_FACTOR * distance); distance 2.50 gives -0.25).
C3_RewardIsScaledDistance ==
  \A i \in 1..Len(measures) :
    (last.op = "update_metric" /\ last.m = i /\ err = "none"
       /\ Cls(i) = "NavPickReward")
      => 100 * measures[i].metric[1] = -(SCALING_FACTOR * measures[IdxD].metric[1])

C6_SuccessIffTargetHeld ==
  \A i \in 1..Len(measures) :
    (Updated(i) /\ Cls(i) = "NavPickSuccess" /\ HasIndex /\ Toi < Len(sim.idxs))
      => measures[i].metric =
           Some(sim.snap_idx = Some(scene_obj_ids[sim.idxs[Toi + 1] + 1]))

C9_OnlyOwnMetricChanges ==
  [][ (last'.op \in {"reset_metric", "update_metric"})
        => /\ sim' = sim
           /\ task' = task
           /\ obs' = obs
           /\ Len(measures') = Len(measures)
           /\ \A j \in 1..Len(measures) :
                /\ measures'[j].cls = measures[j].cls
                /\ measures'[j].uuid = measures[j].uuid
                /\ j # last'.m => measures'[j] = measures[j] ]_vars

C9_Witness ==
  /\ last.op = "update_metric" /\ err = "none"
  /\ Cls(last.m) = "NavPickReward"
  /\ measures[IdxD].metric = Some(250)
  /\ measures[last.m].metric = Some(-250)

Scoped(blk) == blk \in {1, 3}

\* while not env.episode_over:
LoopContinues_Always(over) == TRUE
LoopContinues(over) == ~over
\* while not done:
GymLoopContinues(d) == ~d

\* Env.step on an episode that is over, or before reset, is refused.
Env_step_allowed == reset_called /\ ~episode_over

At(a) == pc.blk \in {1, 2, 3} /\ pc.at = a
Goto(a) == pc' = [pc EXCEPT !.at = a]

\* An exception propagates: the with statement closes its environment, and
\* nothing else is run.
Propagate ==
  /\ Goto("crashed")
  /\ env_open' = IF Scoped(pc.blk) THEN env_open \ {pc.blk} ELSE env_open
  /\ UNCHANGED <<writer_open, reset_called, episode_over, done, count_steps,
                 horizon, elapsed>>

\* habitat.Env(config=...) / gym.make(...)
MakeEnv ==
  /\ At("make")
  /\ \/ /\ env_open' = env_open \cup {pc.blk}
        /\ Goto(IF pc.blk = 2 THEN "writer" ELSE "reset")
        /\ reset_called' = FALSE
        /\ episode_over' = FALSE
        /\ done' = FALSE
        /\ count_steps' = 0
        /\ elapsed' = 0
        /\ UNCHANGED <<writer_open, horizon>>
     \/ /\ Goto("crashed")
        /\ UNCHANGED <<env_open, writer_open, reset_called, episode_over, done,
                       count_steps, horizon, elapsed>>
  /\ UNCHANGED hvars

\* env.reset(); the episode that starts ends after h steps
EnvResetCall ==
  /\ At("reset")
  /\ \/ /\ \E h \in 1..MaxSteps : horizon' = h
        /\ reset_called' = TRUE
        /\ episode_over' = FALSE
        /\ elapsed' = 0
        /\ Goto(IF pc.blk = 2 THEN "test" ELSE "writer")
        /\ UNCHANGED <<env_open, writer_open, done, count_steps>>
     \/ Propagate
  /\ UNCHANGED hvars

\* video_writer = vut.get_fast_video_writer(video_file_path, fps=30)
OpenWriter ==
  /\ At("writer")
  /\ \/ /\ writer_open' = writer_open \cup {pc.blk}
        /\ Goto(IF pc.blk = 2 THEN "reset" ELSE "test")
        /\ UNCHANGED <<env_open, reset_called, episode_over, done, count_steps,
                       horizon, elapsed>>
     \/ Propagate
  /\ UNCHANGED hvars

\* the loop test of a habitat.Env block
LoopTest ==
  /\ At("test")
  /\ Scoped(pc.blk)
  /\ Goto(IF LoopContinues(episode_over) THEN "step" ELSE "close")
  /\ UNCHANGED <<env_open, writer_open, reset_called, episode_over, done,
                 count_steps, horizon, elapsed>>
  /\ UNCHANGED hvars

\* the loop test of the gym block
GymLoopTest ==
  /\ At("test")
  /\ pc.blk = 2
  /\ Goto(IF GymLoopContinues(done) THEN "step" ELSE "close")
  /\ UNCHANGED <<env_open, writer_open, reset_called, episode_over, done,
                 count_steps, horizon, elapsed>>
  /\ UNCHANGED hvars

\* observations = env.step(...) / obs, reward, done, info = env.step(...)
StepCall ==
  /\ At("step")
  /\ \/ /\ Env_step_allowed
        /\ elapsed' = elapsed + 1
        /\ episode_over' = (elapsed + 1 >= horizon)
        /\ done' = IF pc.blk = 2 THEN (elapsed + 1 >= horizon) ELSE done
        /\ Goto(IF pc.blk = 2 THEN "frame" ELSE "metrics")
        /\ UNCHANGED <<env_open, writer_open, reset_called, count_steps, horizon>>
     \/ Propagate
  /\ UNCHANGED hvars

\* info = env.get_metrics()
GetMetricsCall ==
  /\ At("metrics")
  /\ \/ /\ Goto("frame")
        /\ UNCHANGED <<env_open, writer_open, reset_called, episode_over, done,
                       count_steps, horizon, elapsed>>
     \/ Propagate
  /\ UNCHANGED hvars

\* the frame is rendered and appended to the video; count_steps += 1
AppendFrame ==
  /\ At("frame")
  /\ \/ /\ Goto("test")
        /\ count_steps' = IF Scoped(pc.blk) THEN count_steps + 1 ELSE count_steps
        /\ UNCHANGED <<env_open, writer_open, reset_called, episode_over, done,
                       horizon, elapsed>>
     \/ Propagate
  /\ UNCHANGED hvars

\* video_writer.close(), then the end of the block: a with block closes its
\* environment, the gym block leaves env as it is.
CloseWriter ==
  /\ At("close")
  /\ writer_open' = writer_open \ {pc.blk}
  /\ env_open' = IF Scoped(pc.blk) THEN env_open \ {pc.blk} ELSE env_open
  /\ pc' = IF pc.blk = 3 THEN [blk |-> 3, at |-> "done"]
           ELSE [blk |-> pc.blk + 1, at |-> "make"]
  /\ UNCHANGED <<reset_called, episode_over, done, count_steps, horizon, elapsed>>
  /\ UNCHANGED hvars

ScriptInit ==
  /\ cfg = cfg_txt
  /\ phase = "unbuilt"
  /\ measures = <<>>
  /\ sim = [ee_pos |-> 0, scene_pos |-> CHOOSE lay \in Layouts : TRUE,
            idxs |-> <<>>, snap_idx |-> None]
  /\ task = [target_object_index |-> None]
  /\ obs = None
  /\ err = "none"
  /\ last = Op("none", 0, 0, <<>>, "none")
  /\ pc = [blk |-> 1, at |-> "make"]
  /\ env_open = {}
  /\ writer_open = {}
  /\ reset_called = FALSE
  /\ episode_over = FALSE
  /\ done = FALSE
  /\ count_steps = 0
  /\ horizon = 1
  /\ elapsed = 0

ScriptNext ==
  \/ MakeEnv
  \/ EnvResetCall
  \/ OpenWriter
  \/ LoopTest
  \/ GymLoopTest
  \/ StepCall
  \/ GetMetricsCall
  \/ AppendFrame
  \/ CloseWriter

SpecScript == ScriptInit /\ [][ScriptNext]_vars

ScriptEnded == pc.at \in {"done", "crashed"}
RunnerState ==
  IF ~reset_called THEN "NOT_STARTED"
  ELSE IF episode_over THEN "DONE" ELSE "RUNNING"

\* C5: in each of the three loops step() is issued only after reset() and
\* while the episode is not over (the runner is RUNNING); the episode is
\* over exactly when as many steps were made as the episode lasts, and the
\* loop is left only when it is over.
C5_RunnerStateMachine ==
  [][ /\ (pc.at = "step" /\ pc' # pc) => RunnerState = "RUNNING"
      /\ elapsed' <= horizon'
      /\ (reset_called' /\ pc'.at # "crashed")
           => (episode_over' <=> elapsed' = horizon')
      /\ (pc.at = "test" /\ pc'.at = "close")
           => RunnerState = "DONE" /\ elapsed = horizon
      /\ (pc'.blk = 2 /\ pc'.at \in {"test", "close"}) => done' = episode_over'
    ]_vars

C5_Witness ==
  /\ pc = [blk |-> 2, at |-> "close"]
  /\ horizon = 5
  /\ elapsed = 5
  /\ done
  /\ RunnerState = "DONE"

\* C7: when the script has ended, normally or by an exception, every
\* environment and every video writer it opened is closed.
C7_AllReleased ==
  ScriptEnded => env_open = {} /\ writer_open = {}

====
